---- MODULE Spec2Model ----
(***************************************************************************)
(* fetch_siemensbahn.py, main(): the pipeline                               *)
(*   endpoint fallback loop -> feature extraction -> tables -> three file   *)
(*   writes -> map rendering -> map file                                    *)
(* as a state machine.  One run of main() is one behaviour; pc is the       *)
(* position in main(), "done" is the normal return, "fatal" an exception    *)
(* that leaves main() unhandled.                                            *)
(***************************************************************************)
EXTENDS Integers, Sequences, FiniteSets, TLC

VARIABLES pc, i, reply, data, contacted, log, sleeps, features, gdf, gdf_utm,
          output_dir, fs, writes, center, error

vars == <<pc, i, reply, data, contacted, log, sleeps, features, gdf, gdf_utm,
          output_dir, fs, writes, center, error>>

(***************************************************************************)
(* Bounds of the model.                                                     *)
(***************************************************************************)
\* longest "elements" list of a response body
MaxElems == 2

(***************************************************************************)
(* Program constants.                                                       *)
(***************************************************************************)
overpass_urls ==
    << "https://overpass.kumi.systems/api/interpreter",
       "https://overpass-api.de/api/interpreter",
       "https://overpass.openstreetmap.ru/api/interpreter" >>

NumUrls == Len(overpass_urls)

geojson_file     == "data/siemensbahn_wgs84.geojson"
geojson_utm_file == "data/siemensbahn_utm33.geojson"
shapefile        == "data/siemensbahn_utm33.shp"
map_file         == "data/siemensbahn_map.html"

\* the outputs in the order main() writes them
OutputOrder == << geojson_file, geojson_utm_file, shapefile, map_file >>
OutputFiles == { OutputOrder[k] : k \in 1..Len(OutputOrder) }

AllFailedMsg == "All Overpass instances failed"

(***************************************************************************)
(* Values.  Python's None, a JSON null on the wire, and floats (a float is  *)
(* a number or NaN; the model's coordinates are even integers, so that      *)
(* halving a sum of two of them is exact).                                  *)
(***************************************************************************)
None     == [none |-> TRUE]
JsonNull == [null |-> TRUE]
NoBody   == [nobody |-> TRUE]
NaN      == [nan |-> TRUE]
Float(n) == [v |-> n]

HasKey(d, k) == k \in DOMAIN d

(***************************************************************************)
(* What an endpoint can answer.  A request ends in one of:                  *)
(*   "network", "timeout"  requests.post raises                             *)
(*   "status"              raise_for_status raises                          *)
(*   "parse"               response.json raises                             *)
(*   "ok"                  a success status and a body that parses          *)
(* A body that parses is any JSON value: null, an object without            *)
(* "elements", or an object with an "elements" list.  Elements are          *)
(* dictionaries; any key may be missing.                                    *)
(***************************************************************************)
FailureKinds == {"network", "timeout", "status", "parse"}
Outcomes     == FailureKinds \cup {"ok"}

NodeA   == [lon |-> 2, lat |-> 10]
NodeB   == [lon |-> 6, lat |-> 14]
NodeBad == [lon |-> 2]

Geometries == { <<>>, <<NodeA>>, <<NodeB, NodeA>> }
TagSets    == { [railway |-> "abandoned"],
                [railway |-> "abandoned", name |-> "Siemensbahn"] }

\* ways without geometry, without tags, and with tags
WellFormedWays ==
         { [type |-> "way", id |-> 1] }
    \cup { [type |-> "way", id |-> 1, geometry |-> g] : g \in Geometries }
    \cup { [type |-> "way", id |-> 2, geometry |-> g, tags |-> t] :
               g \in Geometries, t \in TagSets }

OtherElements ==
    { [type |-> "node", id |-> 3, lon |-> 2, lat |-> 10],
      [type |-> "relation", id |-> 7382983, geometry |-> <<NodeA>>] }

MalformedElements ==
    { [id |-> 1, geometry |-> <<NodeA>>],
      [type |-> "way", geometry |-> <<NodeA>>],
      [type |-> "way", id |-> 1, geometry |-> <<NodeA, NodeBad>>] }

Elements == WellFormedWays \cup OtherElements \cup MalformedElements

ElementLists == UNION { [1..n -> Elements] : n \in 0..MaxElems }

JsonBodies ==
    { JsonNull, [version |-> 6] } \cup
    { [version |-> 6, elements |-> es] : es \in ElementLists }

\* response.json(): the parsed value of a body that parses
Parse(body) == IF body = JsonNull THEN None ELSE body

(***************************************************************************)
(* The fallback loop, lines 69-81.                                          *)
(***************************************************************************)
\* variant: "except requests.RequestException", which a JSON error is not
Caught_RequestsOnly(kind) == kind \in {"network", "timeout", "status"}

\* "except Exception" catches each of the failure kinds
Caught(kind) == kind \in FailureKinds

\* variant: the loop without its break
AfterTry_NoBreak(ok, idx) ==
    IF idx < NumUrls THEN "request" ELSE "check"

\* where control goes after one iteration of the loop: break on success,
\* the next url on a caught failure, the end of the loop after the last url
AfterTry(ok, idx) ==
    IF ok THEN "check"
    ELSE IF idx < NumUrls THEN "request" ELSE "check"

\* variant: a failed url is tried again
NextUrl_Retry(idx) == idx

\* the for loop's next item
NextUrl(idx) == idx + 1

(***************************************************************************)
(* The feature extractor, lines 87-111.                                     *)
(***************************************************************************)
\* elem["type"] raises KeyError for some element of the comprehension
TypeKeyError(elements) ==
    \E k \in 1..Len(elements) : ~HasKey(elements[k], "type")

\* ways = [elem for elem in data["elements"] if elem["type"] == "way"]
IsWay(elem) == elem.type = "way"
\* variant: the comprehension without its condition
FilterWays_NoFilter(elements) == elements

FilterWays(elements) == SelectSeq(elements, IsWay)

\* variant: the pair in (lat, lon) order
Coords_LatLon(geometry) ==
    [k \in 1..Len(geometry) |-> <<geometry[k].lat, geometry[k].lon>>]

\* coords = [[node["lon"], node["lat"]] for node in way["geometry"]]
Coords(geometry) ==
    [k \in 1..Len(geometry) |-> <<geometry[k].lon, geometry[k].lat>>]

\* way.get("tags", {}).get("name", "")
NameOf(way) ==
    IF HasKey(way, "tags") /\ HasKey(way.tags, "name")
    THEN way.tags.name
    ELSE ""

\* the dictionary appended to features
Feature(way) ==
    [type       |-> "Feature",
     geometry   |-> [type |-> "LineString",
                     coordinates |-> Coords(way.geometry)],
     properties |-> [osm_id |-> way.id, name |-> NameOf(way)]]

\* the body of the loop raises KeyError for this way
WayKeyError(way) ==
    /\ HasKey(way, "geometry")
    /\ \/ \E k \in 1..Len(way.geometry) :
              ~HasKey(way.geometry[k], "lon") \/ ~HasKey(way.geometry[k], "lat")
       \/ ~HasKey(way, "id")

\* the ways the loop gets through before it raises (all of them if it
\* does not)
RECURSIVE Processed(_)
Processed(ways) ==
    IF Len(ways) = 0 \/ WayKeyError(Head(ways))
    THEN <<>>
    ELSE <<Head(ways)>> \o Processed(Tail(ways))

\* for way in ways: if "geometry" in way: features.append(...)
RECURSIVE BuildFeatures(_)
BuildFeatures(ways) ==
    IF Len(ways) = 0
    THEN <<>>
    ELSE (IF HasKey(Head(ways), "geometry")
          THEN <<Feature(Head(ways))>>
          ELSE <<>>) \o BuildFeatures(Tail(ways))

(***************************************************************************)
(* The tables, lines 113-117.  The reprojection is pyproj's; the model      *)
(* keeps the transformed coordinates as terms.                              *)
(***************************************************************************)
\* gpd.GeoDataFrame.from_features(geojson, crs=...)
FromFeatures(feats, crs) ==
    [crs  |-> crs,
     rows |-> [k \in 1..Len(feats) |->
                 [geometry |-> feats[k].geometry.coordinates,
                  osm_id   |-> feats[k].properties.osm_id,
                  name     |-> feats[k].properties.name]]]

Transform(from, to, coords) ==
    [k \in 1..Len(coords) |-> [src |-> from, dst |-> to, of |-> coords[k]]]

\* gdf.to_crs(...)
ToCrs(g, crs) ==
    [crs  |-> crs,
     rows |-> [k \in 1..Len(g.rows) |->
                 [g.rows[k] EXCEPT !.geometry = Transform(g.crs, crs, @)]]]

(***************************************************************************)
(* The map centre, lines 148-158.                                           *)
(***************************************************************************)
FMin(a, b) == IF a = NaN THEN b ELSE IF b = NaN THEN a
              ELSE IF a.v <= b.v THEN a ELSE b
FMax(a, b) == IF a = NaN THEN b ELSE IF b = NaN THEN a
              ELSE IF a.v >= b.v THEN a ELSE b

NaNBounds == <<NaN, NaN, NaN, NaN>>

\* (minx, miny, maxx, maxy) grown by one point (x, y)
Grow(b, p) ==
    << FMin(b[1], Float(p[1])), FMin(b[2], Float(p[2])),
       FMax(b[3], Float(p[1])), FMax(b[4], Float(p[2])) >>

RECURSIVE LineBounds(_, _)
LineBounds(b, coords) ==
    IF Len(coords) = 0 THEN b
    ELSE LineBounds(Grow(b, Head(coords)), Tail(coords))

RECURSIVE RowsBounds(_, _)
RowsBounds(b, rows) ==
    IF Len(rows) = 0 THEN b
    ELSE RowsBounds(LineBounds(b, Head(rows).geometry), Tail(rows))

\* gdf.total_bounds: NaN for a table without a point
TotalBounds(g) == RowsBounds(NaNBounds, g.rows)

\* (a + b) / 2
Mid(a, b) == IF a = NaN \/ b = NaN THEN NaN ELSE Float((a.v + b.v) \div 2)

\* variant: the location in (lon, lat) order
MapCenter_LonLat(bounds) == << Mid(bounds[1], bounds[3]), Mid(bounds[2], bounds[4]) >>

\* location=[center_lat, center_lon]
MapCenter(bounds) == << Mid(bounds[2], bounds[4]), Mid(bounds[1], bounds[3]) >>

(***************************************************************************)
(* The state after the interpreter has entered main().                      *)
(***************************************************************************)
Init ==
    /\ pc = "start"
    /\ i = 1
    /\ reply = [outcome |-> "none", body |-> NoBody]
    /\ data = None
    /\ contacted = <<>>
    /\ log = <<>>
    /\ sleeps = 0
    /\ features = <<>>
    /\ gdf = None
    /\ gdf_utm = None
    /\ output_dir = FALSE
    /\ fs = [f \in OutputFiles |-> "absent"]
    /\ writes = <<>>
    /\ center = None
    /\ error = ""

\* an exception leaves main()
Raise(err) == pc' = "fatal" /\ error' = err

\* lines 48-52: the imports, the first print
Start ==
    /\ pc = "start"
    /\ \E ok \in BOOLEAN :
         IF ok
         THEN /\ pc' = "request"
              /\ log' = Append(log, "Fetching")
              /\ error' = error
         ELSE /\ Raise("ImportError")
              /\ log' = log
    /\ UNCHANGED <<i, reply, data, contacted, sleeps, features, gdf, gdf_utm,
                   output_dir, fs, writes, center>>

\* lines 70-81: one iteration of the loop over overpass_urls
Request ==
    /\ pc = "request"
    /\ \E o \in Outcomes :
       \E b \in (IF o = "ok" THEN JsonBodies ELSE {NoBody}) :
         /\ reply' = [outcome |-> o, body |-> b]
         /\ contacted' = Append(contacted, i)
         /\ IF o = "ok"
            THEN /\ data' = Parse(b)
                 /\ log' = log \o <<"Trying", "Success!">>
                 /\ sleeps' = sleeps
                 /\ pc' = AfterTry(TRUE, i)
                 /\ i' = IF AfterTry(TRUE, i) = "request" THEN NextUrl(i) ELSE i
                 /\ error' = error
            ELSE IF Caught(o)
            THEN /\ data' = data
                 /\ log' = log \o <<"Trying", "Failed">>
                 /\ sleeps' = sleeps + 1
                 /\ pc' = AfterTry(FALSE, i)
                 /\ i' = IF AfterTry(FALSE, i) = "request" THEN NextUrl(i) ELSE i
                 /\ error' = error
            ELSE /\ data' = data
                 /\ log' = Append(log, "Trying")
                 /\ sleeps' = sleeps
                 /\ i' = i
                 /\ Raise(o)
    /\ UNCHANGED <<features, gdf, gdf_utm, output_dir, fs, writes, center>>

\* variant: main() without the test of lines 83-84
Check_NoGuard ==
    /\ pc = "check"
    /\ pc' = "extract"
    /\ UNCHANGED <<i, reply, data, contacted, log, sleeps, features, gdf,
                   gdf_utm, output_dir, fs, writes, center, error>>

\* lines 83-84
Check ==
    /\ pc = "check"
    /\ IF data = None
       THEN Raise(AllFailedMsg)
       ELSE pc' = "extract" /\ error' = error
    /\ UNCHANGED <<i, reply, data, contacted, log, sleeps, features, gdf,
                   gdf_utm, output_dir, fs, writes, center>>

\* lines 87-111
Extract ==
    /\ pc = "extract"
    /\ IF ~HasKey(data, "elements")
       THEN /\ Raise("KeyError")
            /\ UNCHANGED <<features, log>>
       ELSE IF TypeKeyError(data.elements)
       THEN /\ Raise("KeyError")
            /\ UNCHANGED <<features, log>>
       ELSE LET ways == FilterWays(data.elements)
                done == Processed(ways)
            IN  /\ log' = Append(log, "Found")
                /\ features' = BuildFeatures(done)
                /\ IF Len(done) < Len(ways)
                   THEN Raise("KeyError")
                   ELSE pc' = "tables" /\ error' = error
    /\ UNCHANGED <<i, reply, data, contacted, sleeps, gdf, gdf_utm,
                   output_dir, fs, writes, center>>

\* lines 113-117
Tables ==
    /\ pc = "tables"
    /\ \E ok \in BOOLEAN :
         IF ok
         THEN /\ gdf' = FromFeatures(features, "EPSG:4326")
              /\ gdf_utm' = ToCrs(gdf', "EPSG:25833")
              /\ pc' = "mkdir"
              /\ error' = error
         ELSE /\ Raise("LibraryError")
              /\ UNCHANGED <<gdf, gdf_utm>>
    /\ UNCHANGED <<i, reply, data, contacted, log, sleeps, features,
                   output_dir, fs, writes, center>>

\* lines 120-121
Mkdir ==
    /\ pc = "mkdir"
    /\ \E ok \in BOOLEAN :
         IF ok
         THEN /\ output_dir' = TRUE
              /\ pc' = "write_wgs"
              /\ error' = error
         ELSE /\ Raise("OSError")
              /\ output_dir' = output_dir
    /\ UNCHANGED <<i, reply, data, contacted, log, sleeps, features, gdf,
                   gdf_utm, fs, writes, center>>

\* variant: the write's exception is swallowed and main() goes on
OnWriteError_Continue(next) == next

\* what a write that raises does: the exception is not handled
OnWriteError(next) == "fatal"

\* one write of an output file: it completes, or it raises and leaves the
\* file as it was or partly written
Write(file, msg, next) ==
    /\ writes' = Append(writes, file)
    /\ \E ok \in BOOLEAN :
         IF ok
         THEN /\ fs' = [fs EXCEPT ![file] = "complete"]
              /\ log' = Append(log, msg)
              /\ pc' = next
              /\ error' = error
         ELSE /\ \E left \in {fs[file], "partial"} :
                   fs' = [fs EXCEPT ![file] = left]
              /\ log' = log
              /\ pc' = OnWriteError(next)
              /\ error' = IF OnWriteError(next) = "fatal" THEN "OSError" ELSE error
    /\ UNCHANGED <<i, reply, data, contacted, sleeps, features, gdf, gdf_utm,
                   output_dir, center>>

\* lines 124-126
SaveGeoJSON ==
    /\ pc = "write_wgs"
    /\ Write(geojson_file, "Saved GeoJSON (EPSG:4326)", "write_utm")

\* lines 129-131
SaveGeoJSONUtm ==
    /\ pc = "write_utm"
    /\ Write(geojson_utm_file, "Saved GeoJSON (EPSG:25833)", "write_shp")

\* lines 134-136
SaveShapefile ==
    /\ pc = "write_shp"
    /\ Write(shapefile, "Saved Shapefile (EPSG:25833)", "render")

\* variant: a failure of the map is reported and main() returns
Render_SkipOnError ==
    /\ pc = "render"
    /\ \E ok \in BOOLEAN :
         IF ok
         THEN /\ center' = MapCenter(TotalBounds(gdf))
              /\ log' = log \o <<"Dataset info", "Creating interactive HTML map">>
              /\ pc' = "save"
         ELSE /\ center' = center
              /\ log' = Append(log, "Dataset info")
              /\ pc' = "done"
    /\ UNCHANGED <<i, reply, data, contacted, sleeps, features, gdf, gdf_utm,
                   output_dir, fs, writes, error>>

\* lines 138-173
Render ==
    /\ pc = "render"
    /\ \E ok \in BOOLEAN :
         IF ok
         THEN /\ center' = MapCenter(TotalBounds(gdf))
              /\ log' = log \o <<"Dataset info", "Creating interactive HTML map">>
              /\ pc' = "save"
              /\ error' = error
         ELSE /\ Raise("RenderError")
              /\ center' = center
              /\ log' = Append(log, "Dataset info")
    /\ UNCHANGED <<i, reply, data, contacted, sleeps, features, gdf, gdf_utm,
                   output_dir, fs, writes>>

\* lines 176-178
SaveMap ==
    /\ pc = "save"
    /\ Write(map_file, "Saved HTML map", "done")

Next ==
    \/ Start
    \/ Request
    \/ Check
    \/ Extract
    \/ Tables
    \/ Mkdir
    \/ SaveGeoJSON
    \/ SaveGeoJSONUtm
    \/ SaveShapefile
    \/ Render
    \/ SaveMap

Spec == Init /\ [][Next]_vars

\* main() is one sequential thread: a statement that can run does run
FairSpec == Spec /\ WF_vars(Next)

\* lines 181-182: the interpreter's exit status for a finished run
ExitCode == IF pc = "done" THEN 0 ELSE 1

(***************************************************************************)
(* Properties of the run.                                                   *)
(***************************************************************************)

\* the "elements" list of a parsed body (none if it has no such key)
ElementsOf(d) == IF HasKey(d, "elements") THEN d.elements ELSE <<>>

\* every endpoint was requested and none of them succeeded
AllEndpointsFailed ==
    Len(contacted) = NumUrls /\ reply.outcome \in FailureKinds

\* some endpoint answered with a body that parses, and main() is past the
\* feature extractor
Extracted ==
    reply.outcome = "ok" /\ pc \notin {"request", "check", "extract"}

\* the element carries every key the extractor reads from a way with geometry
CompleteWay(e) ==
    /\ HasKey(e, "id")
    /\ \A k \in 1..Len(e.geometry) :
           HasKey(e.geometry[k], "lon") /\ HasKey(e.geometry[k], "lat")

\* a mapping with an "elements" list whose elements all have a type, and
\* whose ways with geometry are complete
WellFormedBody(d) ==
    /\ HasKey(d, "elements")
    /\ \A k \in 1..Len(d.elements) :
         /\ HasKey(d.elements[k], "type")
         /\ (d.elements[k].type = "way" /\ HasKey(d.elements[k], "geometry"))
               => CompleteWay(d.elements[k])

\* the positions of the elements of type "way" that carry a geometry
Selected(es) ==
    { k \in 1..Len(es) :
        /\ HasKey(es[k], "type")
        /\ es[k].type = "way"
        /\ HasKey(es[k], "geometry") }

\* the j-th smallest member of a set of positions
Nth(S, j) == CHOOSE k \in S : Cardinality({ m \in S : m < k }) = j - 1

\* feature f carries exactly what element e holds
BuiltFrom(f, e) ==
    /\ f.type = "Feature"
    /\ f.geometry.type = "LineString"
    /\ Len(f.geometry.coordinates) = Len(e.geometry)
    /\ \A k \in 1..Len(e.geometry) :
           /\ f.geometry.coordinates[k][1] = e.geometry[k].lon
           /\ f.geometry.coordinates[k][2] = e.geometry[k].lat
    /\ f.properties.osm_id = e.id
    /\ f.properties.name =
           (IF ~HasKey(e, "tags") THEN ""
            ELSE IF ~HasKey(e.tags, "name") THEN ""
            ELSE e.tags.name)

\* C1: the endpoints are requested in list order; a request is made only
\* while no request before it has succeeded; after the first success no
\* further request is made; and the data the extractor starts from is the
\* parsed body of that successful reply.
C1_FirstSuccessWins ==
    [][ /\ (contacted' # contacted =>
               /\ reply.outcome # "ok"
               /\ contacted' = Append(contacted, Len(contacted) + 1))
        /\ (reply.outcome = "ok" => reply' = reply)
        /\ (pc' = "extract" =>
               /\ reply'.outcome = "ok"
               /\ data' = Parse(reply'.body)) ]_vars

\* C1 witness: the second endpoint succeeded after the first failed, the
\* third was never requested, and the extractor is about to run.
C1_Witness ==
    pc = "extract" /\ contacted = <<1, 2>> /\ reply.outcome = "ok"

\* C2: when every endpoint has failed, the run is at the test after the
\* loop or has ended with the fatal all-failed error, and no output file
\* has been written or attempted.
C2_AllFailedNoOutput ==
    AllEndpointsFailed =>
        /\ pc \in {"check", "fatal"}
        /\ (pc = "fatal" => error = AllFailedMsg)
        /\ writes = <<>>
        /\ \A f \in OutputFiles : fs[f] = "absent"

\* C2 witness: all three endpoints failed and the run has ended.
C2_Witness ==
    AllEndpointsFailed /\ pc = "fatal" /\ sleeps = NumUrls

C4_FeatureFromOneWay ==
    \A j \in 1..Len(features) :
        \E k \in Selected(ElementsOf(data)) :
            /\ CompleteWay(data.elements[k])
            /\ BuiltFrom(features[j], data.elements[k])

\* C4 witness: two features, one from a way without a name and one from a
\* named way of two nodes.
C4_Witness ==
    /\ Len(features) = 2
    /\ features[1].properties.name = ""
    /\ features[2].properties.name = "Siemensbahn"
    /\ features[2].geometry.coordinates = << <<6, 14>>, <<2, 10>> >>

\* C5: a request that fails by a network error, a timeout, a non-success
\* status or an unparseable body is logged, followed by one pause, and does
\* not end the run; at a non-final endpoint the next endpoint is tried.
C5_FailureRecovered ==
    [][ (pc = "request" /\ contacted' # contacted
                        /\ reply'.outcome \in FailureKinds) =>
            /\ log' = log \o <<"Trying", "Failed">>
            /\ sleeps' = sleeps + 1
            /\ pc' # "fatal"
            /\ error' = error
            /\ (i < NumUrls => pc' = "request" /\ i' = i + 1) ]_vars

\* C5 witness: two failures, the second an unparseable body, and the third
\* endpoint is about to be tried.
C5_Witness ==
    /\ pc = "request"
    /\ i = NumUrls
    /\ sleeps = 2
    /\ reply.outcome = "parse"

\* C6: no endpoint is requested twice, there are never more requests than
\* urls, the loop ends with a successful reply or with every endpoint
\* failed, and every run leaves the loop.
C6_SinglePass ==
    /\ [](/\ Len(contacted) <= NumUrls
          /\ \A a, b \in 1..Len(contacted) :
                 a # b => contacted[a] # contacted[b]
          /\ pc = "check" => (reply.outcome = "ok" \/ AllEndpointsFailed))
    /\ <>(pc \notin {"start", "request"})

\* C6 witness: the loop has ended after a request to every url.
C6_Witness ==
    pc = "check" /\ Len(contacted) = NumUrls

\* C7: the outputs are written in the fixed order and each at most once; a
\* write that did not complete is the last one of the run, which has ended
\* with its error; the outputs written before it are complete and in place,
\* the outputs after it were never produced; a fatal run takes no more steps.
C7_WriteFailureFatal ==
    /\ Len(writes) <= Len(OutputOrder)
    /\ \A k \in 1..Len(writes) :
         /\ writes[k] = OutputOrder[k]
         /\ fs[writes[k]] # "complete" =>
               (k = Len(writes) /\ pc = "fatal" /\ error = "OSError")
    /\ \A k \in (Len(writes) + 1)..Len(OutputOrder) :
         fs[OutputOrder[k]] = "absent"
    /\ pc = "fatal" => ~ENABLED Next

\* C7 witness: the Shapefile write failed midway; the two GeoJSON files are
\* in place and the map was never written.
C7_Witness ==
    /\ pc = "fatal"
    /\ writes = <<geojson_file, geojson_utm_file, shapefile>>
    /\ fs[geojson_file] = "complete"
    /\ fs[geojson_utm_file] = "complete"
    /\ fs[shapefile] = "partial"
    /\ fs[map_file] = "absent"

\* the points of the geographic table
PointsOf(g) ==
    UNION { { g.rows[r].geometry[k] : k \in 1..Len(g.rows[r].geometry) } :
            r \in 1..Len(g.rows) }

MinOf(S) == CHOOSE x \in S : \A y \in S : x <= y
MaxOf(S) == CHOOSE x \in S : \A y \in S : x >= y

\* a map has been constructed
MapBuilt == pc \in {"save", "done"} \/ Len(writes) = Len(OutputOrder)

\* C8: the location of the map is (latitude, longitude), each the midpoint
\* of the smallest and the largest such coordinate of the geographic table
\* (NaN for a table without a point).
C8_CenterIsMidpoint ==
    MapBuilt =>
        LET lons == { p[1] : p \in PointsOf(gdf) }
            lats == { p[2] : p \in PointsOf(gdf) }
        IN  IF PointsOf(gdf) = {}
            THEN center = <<NaN, NaN>>
            ELSE center = << Float((MinOf(lats) + MaxOf(lats)) \div 2),
                             Float((MinOf(lons) + MaxOf(lons)) \div 2) >>

\* C8 witness: a table of two lines over the points (2, 10) and (6, 14);
\* the map is centred on latitude 12, longitude 4.
C8_Witness ==
    /\ pc = "done"
    /\ Len(gdf.rows) = 2
    /\ PointsOf(gdf) = { <<2, 10>>, <<6, 14>> }
    /\ center = << Float(12), Float(4) >>

\* C9: a run that returns normally (exit code 0) had a successful endpoint
\* and wrote all four outputs completely; a run that ends otherwise ended
\* with an error (exit code 1); a run stops only in one of these two ways.
C9_DoneMeansAllOutputs ==
    /\ pc = "done" =>
         /\ ExitCode = 0
         /\ reply.outcome = "ok"
         /\ error = ""
         /\ writes = OutputOrder
         /\ \A f \in OutputFiles : fs[f] = "complete"
    /\ pc = "fatal" => (ExitCode = 1 /\ error # "")
    /\ (~ENABLED Next) => pc \in {"done", "fatal"}

\* C9 witness: a run that returned normally.
C9_Witness ==
    pc = "done" /\ Len(features) = 1

\* C10: the run ends with "All Overpass instances failed" only if every
\* endpoint was requested and failed; never after a reply with a success
\* status and a body that parses.
C10_AllFailedOnlyIfAllFailed ==
    (pc = "fatal" /\ error = AllFailedMsg) => AllEndpointsFailed

====
